---- MODULE Spec2Model ----
(***************************************************************************)
(* The traversal / batch / dispatch / reconciliation pipeline of           *)
(* processJsonKnowledgeBase (src/unnamed/part_001), as a state machine.    *)
(* One run of the async function is one behaviour: every await (the pacing *)
(* delay, the remote call, the backoff delay) is a suspension point and    *)
(* the code between two awaits is one atomic action.                       *)
(***************************************************************************)
EXTENDS Integers, Sequences, FiniteSets, TLC

\* ------------------------------------------------------------------ bounds

\* Longest result list the remote side is let to return.
MaxResLen == 2

\* ------------------------------------------------------- program constants

BATCH_SIZE == 3
RETRY_BUDGET == 3
PACING_MS == 2000
RATE_LIMIT_STEP_MS == 5000
OTHER_BACKOFF_MS == 2000

\* ------------------------------------------------------------ JSON values
\* A JSON value is a node [t, s, k, e]: t its JavaScript kind, s the text of
\* a scalar, k the own keys of an object in property order and e the
\* children (the values of an object, in the order of k, or the elements of
\* an array).

Str(s) == [t |-> "string", s |-> s, k |-> <<>>, e |-> <<>>]
Num(s) == [t |-> "number", s |-> s, k |-> <<>>, e |-> <<>>]
Null == [t |-> "null", s |-> "", k |-> <<>>, e |-> <<>>]
Undefined == [t |-> "undefined", s |-> "", k |-> <<>>, e |-> <<>>]
Arr(es) == [t |-> "array", s |-> "", k |-> <<>>, e |-> es]
Obj(ks, vs) == [t |-> "object", s |-> "", k |-> ks, e |-> vs]

HasKey(o, key) == \E j \in DOMAIN o.k : o.k[j] = key
KeyPos(o, key) == CHOOSE j \in DOMAIN o.k : o.k[j] = key
\* o[key] of JavaScript: undefined when o has no such own key.
Field(o, key) == IF HasKey(o, key) THEN o.e[KeyPos(o, key)] ELSE Undefined
\* o[key] = v of JavaScript.
SetField(o, key, v) ==
    IF HasKey(o, key)
    THEN [o EXCEPT !.e[KeyPos(o, key)] = v]
    ELSE [o EXCEPT !.k = Append(@, key), !.e = Append(@, v)]

\* A reference to a node of a document is the path of child positions
\* leading to it from the root.
RECURSIVE GetAt(_, _)
GetAt(d, p) == IF p = <<>> THEN d ELSE GetAt(d.e[Head(p)], Tail(p))

RECURSIVE SetAt(_, _, _)
SetAt(d, p, v) ==
    IF p = <<>> THEN v ELSE [d EXCEPT !.e[Head(p)] = SetAt(@, Tail(p), v)]

\* JSON.parse(JSON.stringify(v)): an undefined property is dropped, an
\* undefined array element becomes null, everything else is rebuilt.
RECURSIVE JsonRoundTrip(_)
RECURSIVE RoundTripElems(_, _)
RECURSIVE RoundTripProps(_, _)
RoundTripElems(v, j) ==
    IF j > Len(v.e) THEN <<>>
    ELSE <<IF v.e[j].t = "undefined" THEN Null ELSE JsonRoundTrip(v.e[j])>>
         \o RoundTripElems(v, j + 1)
RoundTripProps(v, j) ==
    IF j > Len(v.e) THEN [k |-> <<>>, e |-> <<>>]
    ELSE LET rest == RoundTripProps(v, j + 1)
         IN IF v.e[j].t = "undefined" THEN rest
            ELSE [k |-> <<v.k[j]>> \o rest.k,
                  e |-> <<JsonRoundTrip(v.e[j])>> \o rest.e]
JsonRoundTrip(v) ==
    IF v.t = "array" THEN Arr(RoundTripElems(v, 1))
    ELSE IF v.t = "object"
         THEN LET p == RoundTripProps(v, 1) IN Obj(p.k, p.e)
         ELSE v

\* ------------------------------------------------------------ Tree Walker

\* A test that looks at the name only.
IsRecordNameOnly(data) == Field(data, "name").t = "string"

\* typeof data.name === 'string' && typeof data.description === 'string'
IsRecord(data) ==
    /\ Field(data, "name").t = "string"
    /\ Field(data, "description").t = "string"

RECURSIVE findProcessableItems(_, _)
RECURSIVE VisitChildren(_, _, _)

\* A walker that does not look inside a record it has collected.
findProcessableItemsShallow(data, path) ==
    IF data.t = "array" THEN VisitChildren(data, path, 1)
    ELSE IF data.t = "object"
         THEN (IF IsRecord(data) THEN <<path>>
               ELSE VisitChildren(data, path, 1))
         ELSE <<>>

\* A walker that pushes a record after it has visited the record's children.
findProcessableItemsPostOrder(data, path) ==
    IF data.t = "array" THEN VisitChildren(data, path, 1)
    ELSE IF data.t = "object"
         THEN VisitChildren(data, path, 1)
              \o (IF IsRecord(data) THEN <<path>> ELSE <<>>)
         ELSE <<>>

VisitChildren(data, path, j) ==
    IF j > Len(data.e) THEN <<>>
    ELSE findProcessableItems(data.e[j], Append(path, j))
         \o VisitChildren(data, path, j + 1)

findProcessableItems(data, path) ==
    IF data.t = "array" THEN VisitChildren(data, path, 1)
    ELSE IF data.t = "object"
         THEN (IF IsRecord(data) THEN <<path>> ELSE <<>>)
              \o VisitChildren(data, path, 1)
         ELSE <<>>

\* -------------------------------------------------------- input documents

Rec(n, d) == Obj(<<"name", "description">>, <<Str(n), Str(d)>>)

DocEmpty == Arr(<<>>)
DocNested ==
    Obj(<<"name", "description", "child">>, <<Str("A"), Str("a"), Rec("B", "b")>>)
DocMixed ==
    Obj(<<"knowledge_points", "meta">>,
        <<Arr(<<Rec("A", "a"),
                Obj(<<"name", "description">>, <<Num("1"), Str("x")>>),
                Str("s"),
                Null>>),
          Obj(<<"name">>, <<Str("M")>>)>>)
DocFour == Arr(<<Rec("A", "a"), Rec("B", "b"), Rec("C", "c"), Rec("D", "d")>>)
DocNoMatch ==
    Obj(<<"meta", "list">>,
        <<Obj(<<"name">>, <<Str("M")>>),
          Arr(<<Num("1"), Null,
                Obj(<<"name", "description">>, <<Str("N"), Num("2")>>)>>)>>)

Docs == {DocEmpty, DocNested, DocMixed, DocFour, DocNoMatch}

\* ------------------------------------------------------- Transform Client
\* What the remote side can answer.  A result entry is a JSON value of the
\* parsed response: null, or an object whose _index is a number or a string.

Entry(ixType, ix, n, d) ==
    [isNull |-> FALSE, ixType |-> ixType, ix |-> ix, name |-> n, description |-> d]
NullEntry ==
    [isNull |-> TRUE, ixType |-> "undefined", ix |-> 0, name |-> "", description |-> ""]

ResultEntries ==
    {NullEntry, Entry("string", 0, "N1", "D1"),
     Entry("number", -1, "N1", "D1"), Entry("number", BATCH_SIZE, "N1", "D1")}
    \cup {Entry("number", ix, "N1", "D1") : ix \in 0 .. BATCH_SIZE - 1}
    \cup {Entry("number", 0, "N2", "D2")}

ResultLists == UNION {[1 .. n -> ResultEntries] : n \in 0 .. MaxResLen}

\* Array.isArray(parsed) ? parsed : [parsed]
WrapParsed(isArray, parsed) == IF isArray THEN parsed ELSE <<parsed>>

\* The errors a call can end with, by message.
RemoteErrors == {"HTTP_429", "HTTP_503", "HTTP_400", "EMPTY_RESPONSE", "JSON_SYNTAX"}

\* error.message.includes("429")
Includes429(msg) == msg = "HTTP_429"

\* The catch block of processBatch: what it throws for the error it caught.
ProcessBatchRethrow(msg) == IF Includes429(msg) THEN "RATE_LIMIT" ELSE msg

\* The failure class of the Transform Client contract an error belongs to.
FailureClass(msg) ==
    CASE msg \in {"HTTP_429", "RATE_LIMIT"} -> "RateLimited"
      [] msg = "HTTP_400" -> "Fatal"
      [] msg = "NO_API_KEY" -> "Configuration"
      [] msg = "TYPE_ERROR" -> "ReconcileThrow"
      [] OTHER -> "Transient"

\* ------------------------------------------------------------------ state

VARIABLES
    apiKey,          \* process.env.API_KEY is set
    originalData,    \* the caller's document
    dataCopy,        \* the deep copy the run works on and returns
    itemsToProcess,  \* references (paths into dataCopy) of the discovered records
    i,               \* start of the current batch in itemsToProcess (0-based)
    retries,         \* attempts left for the current batch
    batchSuccess,
    successCount,
    failedCount,
    results,         \* what processBatch returned, while it is reconciled
    waitMs,          \* the delay being waited, 0 when none
    pc,              \* where the run is suspended
    progressLog,     \* the onProgress calls made so far, as <<current, total>>
    attempts,        \* failure class of each failed attempt of the current batch
    outcomes,        \* terminal outcome of each finished batch, in order
    cancelled,       \* the caller has given the run up (the reset of App.tsx)
    calls,           \* the calls of processBatch the run has made so far,
                     \*   NotCounted where they are not counted
    bItems,          \* the batching loop on its own: the list it partitions,
    bSize,           \*   its batch size,
    bI,              \*   its loop variable
    bBatches,        \*   and the batches it has taken so far
    app              \* the state of the App component, its pending file
                     \*   reads and its runs in flight

\* The variables of a run of processJsonKnowledgeBase.
run ==
    <<apiKey, originalData, dataCopy, itemsToProcess, i, retries, batchSuccess,
      successCount, failedCount, results, waitMs, pc, progressLog, attempts,
      outcomes>>

\* The variables of the batching loop taken on its own.
side == <<bItems, bSize, bI, bBatches>>

vars == <<run, calls, cancelled, side, app>>

total == Len(itemsToProcess)

Min(a, b) == IF a < b THEN a ELSE b

\* A slice that stops one element early.
SliceShort(items, from, size) ==
    SubSeq(items, from + 1, Min(from + size, Len(items)) - 1)

\* items.slice(from, from + size)
SliceOf(items, from, size) ==
    SubSeq(items, from + 1, Min(from + size, Len(items)))

\* itemsToProcess.slice(i, i + BATCH_SIZE)
Slice(items, from) == SliceOf(items, from, BATCH_SIZE)

\* A loop that moves on by one record, not by one batch.
LoopStepByOne(from, size) == from + 1

\* i += BATCH_SIZE
LoopStep(from, size) == from + size

batch == Slice(itemsToProcess, i)

\* --------------------------------------------------------- reconciliation

\* The guard without its typeof test: batch["0"] is batch[0] in JavaScript,
\* so an index given as a string gets through.
IndexGuardUntyped(result, b) == result.ix \in 0 .. Len(b) - 1

\* typeof result._index === 'number' && batch[result._index]
IndexGuard(result, b) ==
    /\ result.ixType = "number"
    /\ result.ix \in 0 .. Len(b) - 1

\* A write-back that stores the description under a key of its own.
WriteBackNewField(rec, result) ==
    SetField(SetField(rec, "name", Str(result.name)),
             "desc", Str(result.description))

\* A write-back that forgets the description.
WriteBackNameOnly(rec, result) == SetField(rec, "name", Str(result.name))

\* batch[k].name = result.name; batch[k].description = result.description
WriteBack(rec, result) ==
    SetField(SetField(rec, "name", Str(result.name)),
             "description", Str(result.description))

\* The callback of results.forEach, on one entry that is not null.
ApplyResult(doc, b, result) ==
    IF IndexGuard(result, b)
    THEN LET p == b[result.ix + 1]
         IN SetAt(doc, p, WriteBack(GetAt(doc, p), result))
    ELSE doc

\* results.forEach(...): reading _index of a null entry throws a TypeError
\* and leaves the entries before it applied.
RECURSIVE ForEachResult(_, _, _, _)
ForEachResult(doc, b, res, j) ==
    IF j > Len(res) THEN [doc |-> doc, threw |-> FALSE]
    ELSE IF res[j].isNull THEN [doc |-> doc, threw |-> TRUE]
    ELSE ForEachResult(ApplyResult(doc, b, res[j]), b, res, j + 1)

\* ------------------------------------------------------------- retry loop

\* e.message === "RATE_LIMIT" || e.message.includes("429")
IsRateLimit(msg) == msg = "RATE_LIMIT" \/ Includes429(msg)

\* A backoff that is the same after every failure.
WaitTimeFlat(isRateLimit, r) == OTHER_BACKOFF_MS

\* isRateLimit ? 5000 * (4 - retries) : 2000, retries already decremented
WaitTime(isRateLimit, r) ==
    IF isRateLimit THEN RATE_LIMIT_STEP_MS * (4 - r) ELSE OTHER_BACKOFF_MS

\* successCount += batch.length
CountSuccess(n, b) == n + Len(b)

\* A catch block that counts the batch as failed on every failed attempt.
CountRetryAsFailed(n, b) == n + Len(b)

\* The catch block with budget left: the failed counter is not touched.
CountRetry(n, b) == n

\* A slip of the failed counter: one per failed batch, not one per record.
CountFailedPerBatch(n, b) == n + 1

\* failedCount += batch.length
CountFailed(n, b) == n + Len(b)

\* The hard failure of the first version of the service: throw e.
RethrowWhenExhausted(next) == "raised"

\* The soft failure: the catch block throws nothing once the budget is
\* exhausted, so the run goes on where the loop takes it.
AfterSoftFail(next) == next

\* Where the for loop goes after the batch starting at from.
NextPc(from) ==
    IF LoopStep(from, BATCH_SIZE) < total THEN "pacing" ELSE "returned"

\* onProgress without Math.min.
ProgressArgsUncapped(from, n) == <<from + BATCH_SIZE, n>>

\* onProgress(Math.min(i + BATCH_SIZE, total), total)
ProgressArgs(from, n) == <<Min(from + BATCH_SIZE, n), n>>

\* A catch block that reports progress on every failed attempt.
RetryProgressReported(log, from, n) == Append(log, <<from, n>>)

\* The catch block with budget left: onProgress is not called.
RetryProgress(log, from, n) == log

\* A catch block that forgets to count the attempt.
AfterFailureKept(r) == r

\* retries--
AfterFailure(r) == r - 1

\* A budget test that lets one attempt too many through.
BudgetExhaustedLate(r) == r < 0

\* retries === 0
BudgetExhausted(r) == r = 0

\* The end of one iteration of the for loop: onProgress, i += BATCH_SIZE and
\* either the head of the next iteration, up to its first await (the pacing
\* delay, as i > 0), or the return.
FinishBatch(r, bs, outcome, next) ==
    /\ progressLog' = Append(progressLog, ProgressArgs(i, total))
    /\ outcomes' = Append(outcomes, outcome)
    /\ attempts' = <<>>
    /\ i' = LoopStep(i, BATCH_SIZE)
    /\ pc' = next
    /\ IF LoopStep(i, BATCH_SIZE) < total
       THEN /\ retries' = RETRY_BUDGET
            /\ batchSuccess' = FALSE
            /\ waitMs' = PACING_MS
       ELSE /\ retries' = r
            /\ batchSuccess' = bs
            /\ waitMs' = 0

\* A pacing test that holds for the first batch too.
NeedsPacingAlways(from) == from >= 0

\* if (i > 0)
NeedsPacing(from) == from > 0

\* The head of the try block: the pacing delay of every attempt of a batch
\* after the first, then the call.
EnterTry ==
    IF NeedsPacing(i)
    THEN pc' = "pacing" /\ waitMs' = PACING_MS
    ELSE pc' = "calling" /\ waitMs' = 0

\* The catch block of the retry loop, for the error msg, with the document
\* as the failed attempt left it.
CatchBlock(msg, class, doc) ==
    LET r == AfterFailure(retries) IN
    /\ dataCopy' = doc
    /\ successCount' = successCount
    /\ IF BudgetExhausted(r)
       THEN /\ failedCount' = CountFailed(failedCount, batch)
            /\ FinishBatch(r, batchSuccess, "PermanentlyFailed",
                           AfterSoftFail(NextPc(i)))
       ELSE /\ failedCount' = CountRetry(failedCount, batch)
            /\ retries' = r
            /\ pc' = "backoff"
            /\ waitMs' = WaitTime(IsRateLimit(msg), r)
            /\ attempts' = Append(attempts, class)
            /\ progressLog' = RetryProgress(progressLog, i, total)
            /\ UNCHANGED <<i, batchSuccess, outcomes>>

\* A try block that throws when the list is shorter than the batch.
ReconcileFailedOnMissing(r, res, b) == r.threw \/ Len(res) < Len(b)

\* The try block after the call: only forEach can throw; nothing compares
\* the list with the batch.
ReconcileFailed(r, res, b) == r.threw

\* A run that works on the caller's document itself.
CallerViewAliased(orig, copy) == copy

\* The caller's document after a write to dataCopy: the copy of
\* JSON.parse(JSON.stringify(originalData)) shares nothing with it.
CallerView(orig, copy) == orig

\* The calls of processBatch are counted by the specification that bounds
\* their number; the other ones leave the counter at NotCounted.
NotCounted == 0 - 1

\* One more call of processBatch when the step ends in one (line 145).
CountCall ==
    calls' = IF calls # NotCounted /\ pc' = "calling" THEN calls + 1 ELSE calls

\* ---------------------------------------------------------------- actions

\* No run has been started.
RunAtEntry ==
    /\ dataCopy = Null
    /\ itemsToProcess = <<>>
    /\ i = 0
    /\ retries = 0
    /\ batchSuccess = FALSE
    /\ successCount = 0
    /\ failedCount = 0
    /\ results = <<>>
    /\ waitMs = 0
    /\ pc = "entry"
    /\ progressLog = <<>>
    /\ attempts = <<>>
    /\ outcomes = <<>>
    /\ cancelled = FALSE

\* The batching loop on its own is not in use.
SideAtRest ==
    /\ bItems = <<>>
    /\ bSize = BATCH_SIZE
    /\ bI = 0
    /\ bBatches = <<>>

\* The component as useState leaves it, with nothing pending.  A file and
\* the document parsed from it are known by the number of the file, 0 is null.
AppAtRest ==
    app = [file |-> 0, originalData |-> 0, processedData |-> 0,
           status |-> "idle", error |-> FALSE, progress |-> 0,
           reads |-> {}, runs |-> <<>>]

Init ==
    /\ apiKey \in BOOLEAN
    /\ originalData \in Docs
    /\ RunAtEntry
    /\ SideAtRest
    /\ AppAtRest
    /\ calls = NotCounted

\* The call, up to the first await: deep copy, discovery, the early return
\* for no record, and the first call of processBatch (no pacing as i = 0).
Start ==
    /\ pc = "entry"
    /\ dataCopy' = JsonRoundTrip(originalData)
    /\ itemsToProcess' = findProcessableItems(dataCopy', <<>>)
    /\ IF Len(itemsToProcess') = 0
       THEN pc' = "returned" /\ retries' = 0
       ELSE pc' = "calling" /\ retries' = RETRY_BUDGET
    /\ i' = 0
    /\ batchSuccess' = FALSE
    /\ successCount' = 0
    /\ failedCount' = 0
    /\ CountCall
    /\ UNCHANGED <<cancelled, side, app>>
    /\ UNCHANGED <<apiKey, originalData, results, waitMs, progressLog, attempts,
                   outcomes>>

\* await delay(2000) of the try block is over: processBatch is called.
PacingElapsed ==
    /\ pc = "pacing"
    /\ pc' = "calling"
    /\ waitMs' = 0
    /\ CountCall
    /\ UNCHANGED <<cancelled, side, app>>
    /\ UNCHANGED <<apiKey, originalData, dataCopy, itemsToProcess, i, retries,
                   batchSuccess, successCount, failedCount, results, progressLog,
                   attempts, outcomes>>

\* await delay(waitTime) of the catch block is over: the while condition
\* holds (retries > 0, no success) and the try block is entered again.
BackoffElapsed ==
    /\ pc = "backoff"
    /\ retries > 0 /\ ~batchSuccess
    /\ EnterTry
    /\ CountCall
    /\ UNCHANGED <<cancelled, side, app>>
    /\ UNCHANGED <<apiKey, originalData, dataCopy, itemsToProcess, i, retries,
                   batchSuccess, successCount, failedCount, results, progressLog,
                   attempts, outcomes>>

\* processBatch rejects: getAiClient threw for want of a key, or the call or
\* the parsing of its answer failed; the catch block of the retry loop runs.
ProcessBatchThrows ==
    /\ pc = "calling"
    /\ \E msg \in IF apiKey THEN RemoteErrors ELSE {"NO_API_KEY"} :
          CatchBlock(ProcessBatchRethrow(msg), FailureClass(msg), dataCopy)
    /\ originalData' = CallerView(originalData, dataCopy')
    /\ UNCHANGED <<calls, cancelled, side, app>>
    /\ UNCHANGED <<apiKey, itemsToProcess, results>>

\* processBatch resolves with the parsed response, an array or a single
\* value, as a list.
ProcessBatchReturns ==
    /\ pc = "calling"
    /\ apiKey
    /\ \/ \E parsed \in ResultLists : results' = WrapParsed(TRUE, parsed)
       \/ \E parsed \in ResultEntries : results' = WrapParsed(FALSE, parsed)
    /\ pc' = "reconcile"
    /\ UNCHANGED <<calls, cancelled, side, app>>
    /\ UNCHANGED <<apiKey, originalData, dataCopy, itemsToProcess, i, retries,
                   batchSuccess, successCount, failedCount, waitMs, progressLog,
                   attempts, outcomes>>

\* The rest of the try block: results.forEach, then the success bookkeeping,
\* or the catch block when forEach threw.
Reconcile ==
    /\ pc = "reconcile"
    /\ LET r == ForEachResult(dataCopy, batch, results, 1) IN
       IF ReconcileFailed(r, results, batch)
       THEN CatchBlock("TYPE_ERROR", FailureClass("TYPE_ERROR"), r.doc)
       ELSE /\ dataCopy' = r.doc
            /\ successCount' = CountSuccess(successCount, batch)
            /\ failedCount' = failedCount
            /\ FinishBatch(retries, TRUE, "Succeeded", NextPc(i))
    /\ results' = <<>>
    /\ originalData' = CallerView(originalData, dataCopy')
    /\ UNCHANGED <<calls, cancelled, side, app>>
    /\ UNCHANGED <<apiKey, itemsToProcess>>

Next ==
    \/ Start
    \/ PacingElapsed
    \/ BackoffElapsed
    \/ ProcessBatchThrows
    \/ ProcessBatchReturns
    \/ Reconcile

Spec == Init /\ [][Next]_vars

\* Every await of the run is over at some time: a delay elapses, a call of
\* processBatch resolves or rejects, and the code after an await runs.  The
\* run waits at one place at a time, so this is fairness of its next step.
Fairness == WF_vars(Next)

InitLive ==
    /\ apiKey \in BOOLEAN
    /\ originalData \in Docs
    /\ RunAtEntry
    /\ SideAtRest
    /\ AppAtRest
    /\ calls = 0

SpecLive == InitLive /\ [][Next]_vars /\ Fairness

\* ---------------------------------- src/services/geminiService.ts
\* The first version of the service, the one App.tsx imports: batches of ten,
\* no pacing delay, no statistics, a backoff of 2000 ms after every failure,
\* and the error of the third failed attempt thrown to the caller.

OLD_BATCH_SIZE == 10
OLD_BACKOFF_MS == 2000

DocEleven == Arr([k \in 1 .. OLD_BATCH_SIZE + 1 |-> Rec("A", "a")])

oldBatch == SliceOf(itemsToProcess, i, OLD_BATCH_SIZE)

\* A catch block that skips the batch when the budget is used up.
SkipWhenExhausted(next) == next

\* throw e
ThrowWhenExhausted(next) == "raised"

\* Where the for loop goes after the batch starting at from: the next call
\* of processBatch, which no delay precedes, or the return.
OldNextPc(from) ==
    IF LoopStep(from, OLD_BATCH_SIZE) < total THEN "calling" ELSE "returned"

InitOld ==
    /\ apiKey \in BOOLEAN
    /\ originalData \in {DocEmpty, DocNested, DocEleven}
    /\ RunAtEntry
    /\ SideAtRest
    /\ AppAtRest
    /\ calls = NotCounted

\* The call, up to the first await: deep copy, discovery, the early return
\* for no record, and the first call of processBatch.
OldStart ==
    /\ pc = "entry"
    /\ dataCopy' = JsonRoundTrip(originalData)
    /\ itemsToProcess' = findProcessableItems(dataCopy', <<>>)
    /\ IF Len(itemsToProcess') = 0
       THEN pc' = "returned" /\ retries' = 0
       ELSE pc' = "calling" /\ retries' = RETRY_BUDGET
    /\ i' = 0
    /\ batchSuccess' = FALSE
    /\ CountCall
    /\ UNCHANGED <<cancelled, side, app>>
    /\ UNCHANGED <<apiKey, originalData, successCount, failedCount, results,
                   waitMs, progressLog, attempts, outcomes>>

\* The catch block: retries--, throw e at 0, a delay of 2000 ms otherwise.
OldCatchBlock(class, doc) ==
    LET r == AfterFailure(retries) IN
    /\ dataCopy' = doc
    /\ retries' = r
    /\ attempts' = Append(attempts, class)
    /\ IF BudgetExhausted(r)
       THEN pc' = ThrowWhenExhausted(OldNextPc(i)) /\ waitMs' = 0
       ELSE pc' = "backoff" /\ waitMs' = OLD_BACKOFF_MS
    /\ UNCHANGED <<i, batchSuccess, successCount, failedCount, progressLog,
                   outcomes>>

\* The delay of the catch block is over: the while condition holds and
\* processBatch is called again.
OldBackoffElapsed ==
    /\ pc = "backoff"
    /\ retries > 0 /\ ~batchSuccess
    /\ pc' = "calling"
    /\ waitMs' = 0
    /\ CountCall
    /\ UNCHANGED <<cancelled, side, app>>
    /\ UNCHANGED <<apiKey, originalData, dataCopy, itemsToProcess, i, retries,
                   batchSuccess, successCount, failedCount, results, progressLog,
                   attempts, outcomes>>

\* processBatch rejects with the error as it was raised.
OldProcessBatchThrows ==
    /\ pc = "calling"
    /\ \E msg \in IF apiKey THEN RemoteErrors ELSE {"NO_API_KEY"} :
          OldCatchBlock(FailureClass(msg), dataCopy)
    /\ originalData' = CallerView(originalData, dataCopy')
    /\ UNCHANGED <<calls, cancelled, side, app>>
    /\ UNCHANGED <<apiKey, itemsToProcess, results>>

\* processBatch resolves with the parsed response as a list.
OldProcessBatchReturns ==
    /\ pc = "calling"
    /\ apiKey
    /\ \/ \E parsed \in ResultLists : results' = WrapParsed(TRUE, parsed)
       \/ \E parsed \in ResultEntries : results' = WrapParsed(FALSE, parsed)
    /\ pc' = "reconcile"
    /\ UNCHANGED <<calls, cancelled, side, app>>
    /\ UNCHANGED <<apiKey, originalData, dataCopy, itemsToProcess, i, retries,
                   batchSuccess, successCount, failedCount, waitMs, progressLog,
                   attempts, outcomes>>

\* The rest of the try block: results.forEach and success = true, then
\* onProgress and the next iteration up to its call of processBatch; or the
\* catch block when forEach threw.
OldReconcile ==
    /\ pc = "reconcile"
    /\ LET r == ForEachResult(dataCopy, oldBatch, results, 1) IN
       IF ReconcileFailed(r, results, oldBatch)
       THEN /\ OldCatchBlock(FailureClass("TYPE_ERROR"), r.doc)
            /\ calls' = calls
       ELSE /\ dataCopy' = r.doc
            /\ progressLog' =
                  Append(progressLog, <<Min(i + OLD_BATCH_SIZE, total), total>>)
            /\ outcomes' = Append(outcomes, "Succeeded")
            /\ attempts' = <<>>
            /\ i' = LoopStep(i, OLD_BATCH_SIZE)
            /\ pc' = OldNextPc(i)
            /\ IF LoopStep(i, OLD_BATCH_SIZE) < total
               THEN retries' = RETRY_BUDGET /\ batchSuccess' = FALSE
               ELSE retries' = retries /\ batchSuccess' = TRUE
            /\ CountCall
            /\ UNCHANGED <<successCount, failedCount, waitMs>>
    /\ results' = <<>>
    /\ originalData' = CallerView(originalData, dataCopy')
    /\ UNCHANGED <<cancelled, side, app>>
    /\ UNCHANGED <<apiKey, itemsToProcess>>

NextOld ==
    \/ OldStart
    \/ OldBackoffElapsed
    \/ OldProcessBatchThrows
    \/ OldProcessBatchReturns
    \/ OldReconcile

SpecOld == InitOld /\ [][NextOld]_vars

\* ------------------------------------------------ a caller that gives up
\* processJsonKnowledgeBase(originalData, onProgress) takes no signal; what a
\* caller can do is what App.tsx does on reset: drop its own state while the
\* run goes on.

RaiseCancel ==
    /\ pc \notin {"entry", "returned"}
    /\ ~cancelled
    /\ cancelled' = TRUE
    /\ UNCHANGED <<run, calls, side, app>>

NextCancel ==
    \/ Next
    \/ RaiseCancel

SpecCancel == Init /\ [][NextCancel]_vars

\* ------------------------------------------------------------ src/App.tsx
\* The handlers of the component, each up to its await; a run of
\* processJsonKnowledgeBase is seen from outside: it was started over a
\* document, it may call onProgress, and it resolves or rejects.

MaxFiles == 2
MaxRuns == 2

\* The files a user can pick: files that parse, and one that does not.
BadFile == MaxFiles + 1
Files == 1 .. BadFile

\* A list without its k-th element.
Without(seq, k) == SubSeq(seq, 1, k - 1) \o SubSeq(seq, k + 1, Len(seq))

\* handleFileChange with a .json file, and parseFile up to readAsText; the
\* file input is rendered only while originalData is null.
SelectFile(f) ==
    /\ app.originalData = 0
    /\ app' = [app EXCEPT !.file = f, !.status = "parsing", !.error = FALSE,
                          !.reads = @ \cup {f}]
    /\ UNCHANGED <<run, calls, cancelled, side>>

\* reader.onload: JSON.parse, then the three setters, or the catch block.
ReadDone(f) ==
    /\ f \in app.reads
    /\ app' = IF f # BadFile
              THEN [app EXCEPT !.reads = @ \ {f}, !.originalData = f,
                               !.processedData = 0, !.status = "idle"]
              ELSE [app EXCEPT !.reads = @ \ {f}, !.error = TRUE,
                               !.status = "error"]
    /\ UNCHANGED <<run, calls, cancelled, side>>

\* handleProcess up to its await; the button is rendered while a document is
\* loaded and status is neither 'complete' nor 'processing'.
HandleProcess ==
    /\ app.originalData # 0
    /\ app.status \notin {"complete", "processing"}
    /\ Len(app.runs) < MaxRuns
    /\ app' = [app EXCEPT !.status = "processing", !.error = FALSE,
                          !.progress = 0,
                          !.runs = Append(@, app.originalData)]
    /\ UNCHANGED <<run, calls, cancelled, side>>

\* The callback handed to the run: setProgress.
OnProgress(k) ==
    /\ k \in DOMAIN app.runs
    /\ app' = [app EXCEPT !.progress = app.runs[k]]
    /\ UNCHANGED <<run, calls, cancelled, side>>

\* A setter of the continuation of handleProcess: it sets, whatever has
\* happened to the component since the run over d was started.
SetAfterAwait(a, d, v, old) == v

\* handleProcess after its await, the run resolved.
RunResolves(k) ==
    /\ k \in DOMAIN app.runs
    /\ LET d == app.runs[k] IN
       app' = [app EXCEPT
                 !.runs = Without(@, k),
                 !.processedData = SetAfterAwait(app, d, d, @),
                 !.status = SetAfterAwait(app, d, "complete", @)]
    /\ UNCHANGED <<run, calls, cancelled, side>>

\* handleProcess after its await, the run rejected: the catch block.
RunRejects(k) ==
    /\ k \in DOMAIN app.runs
    /\ LET d == app.runs[k] IN
       app' = [app EXCEPT
                 !.runs = Without(@, k),
                 !.error = SetAfterAwait(app, d, TRUE, @),
                 !.status = SetAfterAwait(app, d, "error", @)]
    /\ UNCHANGED <<run, calls, cancelled, side>>

\* handleReset; its button is rendered while a document is loaded.
HandleReset ==
    /\ app.originalData # 0
    /\ app' = [app EXCEPT !.file = 0, !.originalData = 0, !.processedData = 0,
                          !.status = "idle", !.error = FALSE]
    /\ UNCHANGED <<run, calls, cancelled, side>>

InitApp ==
    /\ apiKey = TRUE
    /\ originalData = DocEmpty
    /\ RunAtEntry
    /\ SideAtRest
    /\ AppAtRest
    /\ calls = NotCounted

NextApp ==
    \/ \E f \in Files : SelectFile(f)
    \/ \E f \in Files : ReadDone(f)
    \/ HandleProcess
    \/ \E k \in 1 .. MaxRuns : OnProgress(k)
    \/ \E k \in 1 .. MaxRuns : RunResolves(k)
    \/ \E k \in 1 .. MaxRuns : RunRejects(k)
    \/ HandleReset

SpecApp == InitApp /\ [][NextApp]_vars

\* ------------------------------------------------- the walker on its own
\* Documents of bounded shape: leaves, objects that may have a name, a
\* description and one more property, and arrays of bounded length, nested
\* three levels deep.

MaxWidth == 2

FieldValues == {Undefined, Str("s"), Num("1")}

\* {name?, description?, child?}: a property is left out when its value is
\* undefined.
ObjOf(n, d, c) ==
    LET p == RoundTripProps([k |-> <<"name", "description", "child">>,
                             e |-> <<n, d, c>>], 1)
    IN Obj(p.k, p.e)

Objs(children) ==
    {ObjOf(n, d, c) : n \in FieldValues, d \in FieldValues,
                      c \in children \cup {Undefined}}

Arrs(elems) == {Arr(es) : es \in UNION {[1 .. n -> elems] : n \in 0 .. MaxWidth}}

Level0 == {Str("s"), Null}
Level1 == Objs(Level0) \cup Arrs(Level0)
\* What the arrays of the second level hold.
Elems ==
    {ObjOf(n, d, Undefined) : n \in FieldValues, d \in {Str("s"), Num("1")}}
    \cup {Null, ObjOf(Str("s"), Str("s"), Rec("B", "b"))}
Level2 == Objs(Level1) \cup Arrs(Elems)
TreeDocs ==
    Level2
    \cup {ObjOf(Str("A"), Str("a"), d) : d \in Level2}
    \cup {Arr(<<d, Rec("Z", "z")>>) : d \in Level2}

InitWalk ==
    /\ apiKey = TRUE
    /\ originalData \in TreeDocs \cup Docs
    /\ RunAtEntry
    /\ SideAtRest
    /\ AppAtRest
    /\ calls = NotCounted

\* The run up to its first await: the copy and the discovery.
SpecWalk == InitWalk /\ [][Start]_vars

\* ------------------------------------------- the batching loop on its own
\* for (let i = 0; i < total; i += BATCH_SIZE) with slice(i, i + BATCH_SIZE),
\* for lists of any length up to MaxItems and batch sizes up to MaxBatch.

MaxItems == 8
MaxBatch == 4

InitBatch ==
    /\ apiKey = TRUE
    /\ originalData = DocEmpty
    /\ RunAtEntry
    /\ \E n \in 0 .. MaxItems : bItems = [k \in 1 .. n |-> k]
    /\ bSize \in 1 .. MaxBatch
    /\ bI = 0
    /\ bBatches = <<>>
    /\ AppAtRest
    /\ calls = NotCounted

\* One iteration of the for loop, without the work on the batch.
TakeBatch ==
    /\ bI < Len(bItems)
    /\ bBatches' = Append(bBatches, SliceOf(bItems, bI, bSize))
    /\ bI' = LoopStep(bI, bSize)
    /\ UNCHANGED <<run, calls, cancelled, bItems, bSize, app>>

SpecBatch == InitBatch /\ [][TakeBatch]_vars

\* ----------------------------------------------------- what the claims use

\* The document as it was when the run took its copy.
PreRun == JsonRoundTrip(originalData)

\* The name and the description of the record a reference points to.
Pair(doc, path) ==
    <<Field(GetAt(doc, path), "name"), Field(GetAt(doc, path), "description")>>

\* The pair a result entry carries.
EntryPair(x) == <<Str(x.name), Str(x.description)>>

\* The discovery positions (1-based) of the b-th batch.
BatchPositions(b) ==
    {p \in DOMAIN itemsToProcess :
        (b - 1) * BATCH_SIZE < p /\ p <= b * BATCH_SIZE}

\* Records counted as failed by the batches finished so far.
FailedSoFar ==
    Cardinality({p \in DOMAIN itemsToProcess :
        \E b \in DOMAIN outcomes :
            outcomes[b] = "PermanentlyFailed" /\ p \in BatchPositions(b)})

NumBatches == (total + BATCH_SIZE - 1) \div BATCH_SIZE

\* A Batch Result in the sense of the Transform Client contract: every entry
\* is an object.
WellFormed(res) == \A j \in DOMAIN res : ~res[j].isNull

\* The correlation indices of the batch b that the list res carries.
Present(res, b) ==
    {k \in 0 .. Len(b) - 1 :
        \E j \in DOMAIN res :
            ~res[j].isNull /\ res[j].ixType = "number" /\ res[j].ix = k}
Missing(res, b) == (0 .. Len(b) - 1) \ Present(res, b)

\* ------------------------------------------------------------------ claims

\* C1: when processJsonKnowledgeBase returns, stats.success + stats.failed
\* equals stats.total, whatever the document and the remote outcomes were.
C1_StatsAddUp == pc = "returned" => successCount + failedCount = total

\* A run over two batches returned, one batch succeeded and one failed.
C1_Witness ==
    /\ pc = "returned"
    /\ Len(outcomes) = 2
    /\ successCount > 0
    /\ failedCount > 0

\* C2: a batch whose retry budget is exhausted is a soft failure: the run
\* does not raise, the next batch (when there is one) is dispatched at once,
\* and the run returns only after every batch reached its outcome.
C2_SoftFailure ==
    (\E b \in DOMAIN outcomes : outcomes[b] = "PermanentlyFailed") =>
        /\ pc \in {"pacing", "calling", "reconcile", "backoff", "returned"}
        /\ i = Len(outcomes) * BATCH_SIZE
        /\ (i < total => pc # "returned")
        /\ (pc = "returned" => Len(outcomes) = NumBatches)

\* The first batch failed for good, the second one was dispatched and
\* succeeded, and the run returned.
C2_Witness ==
    /\ pc = "returned"
    /\ outcomes = <<"PermanentlyFailed", "Succeeded">>

\* C3: the records of a batch that ended PermanentlyFailed still have their
\* pre-run name and description.
C3_FailedBatchUntouched ==
    \A b \in DOMAIN outcomes :
        outcomes[b] = "PermanentlyFailed" =>
            \A p \in BatchPositions(b) :
                Pair(dataCopy, itemsToProcess[p]) = Pair(PreRun, itemsToProcess[p])

\* C4: when the returned Batch Result omits correlation indices, the records
\* whose index is missing are counted as failed and only the others as
\* succeeded.
C4_MissingCountedFailed ==
    [][(/\ pc = "reconcile"
        /\ WellFormed(results)
        /\ Missing(results, batch) # {})
       => /\ successCount' = successCount + Cardinality(Present(results, batch))
          /\ failedCount' = failedCount + Cardinality(Missing(results, batch))]_vars

\* The entries of res that results.forEach reaches: those with no null
\* entry at or before them.
Reached(res) == {j \in DOMAIN res : \A h \in 1 .. j : ~res[h].isNull}

\* The reached entries of res that carry the number k as their index.
Hits(res, k) ==
    {j \in Reached(res) : res[j].ixType = "number" /\ res[j].ix = k}

MaxOf(S) == CHOOSE x \in S : \A y \in S : y <= x

\* The pairs a result entry carrying the index k can hold.
PairsForIndex(k) ==
    {EntryPair(x) : x \in {y \in ResultEntries :
        ~y.isNull /\ y.ixType = "number" /\ y.ix = k}}

\* C5: every record holds its pre-run name and description, or the name and
\* the description of one result entry carrying its correlation index: the
\* copy starts as the input, every step leaves a record's pair alone or
\* sets it to the pair of one entry of the list being reconciled whose index
\* is the record's, and so does the returned document.
C5_NoMixedPair ==
    /\ [](pc = "returned" =>
            \A p \in DOMAIN itemsToProcess :
                \/ Pair(dataCopy, itemsToProcess[p]) = Pair(PreRun, itemsToProcess[p])
                \/ Pair(dataCopy, itemsToProcess[p])
                      \in PairsForIndex((p - 1) % BATCH_SIZE))
    /\ [][/\ pc = "entry" => dataCopy' = PreRun
          /\ \A p \in DOMAIN itemsToProcess :
                \/ Pair(dataCopy', itemsToProcess[p]) = Pair(dataCopy, itemsToProcess[p])
                \/ /\ pc = "reconcile"
                   /\ \E j \in DOMAIN results :
                        /\ ~results[j].isNull
                        /\ results[j].ixType = "number"
                        /\ i + results[j].ix + 1 = p
                        /\ Pair(dataCopy', itemsToProcess[p]) = EntryPair(results[j])]_vars

\* A returned run whose first batch failed for good after an attempt wrote
\* its first record from the second of two entries for index 0, the second
\* record being as before the run.
C5_Witness ==
    /\ pc = "returned"
    /\ total > 1
    /\ outcomes[1] = "PermanentlyFailed"
    /\ Pair(dataCopy, itemsToProcess[1]) = <<Str("N2"), Str("D2")>>
    /\ Pair(dataCopy, itemsToProcess[2]) = Pair(PreRun, itemsToProcess[2])

\* C6: reconciling the batch at offset i, each entry the loop reaches whose
\* index is a number k with 0 <= k < batch.length overwrites name and
\* description of the record at discovery position i + k and of no other
\* (the last such entry stands); an entry whose index is negative, too large
\* or not a number changes no record, and raises nothing: a list of objects
\* always ends in the success of the batch.
C6_ReconcileByIndex ==
    [][pc = "reconcile" =>
        /\ \A p \in DOMAIN itemsToProcess :
              LET h == Hits(results, p - 1 - i) IN
              Pair(dataCopy', itemsToProcess[p]) =
                  IF p - 1 - i \in 0 .. Len(batch) - 1 /\ h # {}
                  THEN EntryPair(results[MaxOf(h)])
                  ELSE Pair(dataCopy, itemsToProcess[p])
        /\ WellFormed(results) => outcomes' = Append(outcomes, "Succeeded")]_vars

\* Both batches succeeded; the second, at offset 3, got an entry with index
\* 0 that rewrote the record at position 3, and no record of the first batch
\* was rewritten.
C6_Witness ==
    /\ pc = "returned"
    /\ outcomes = <<"Succeeded", "Succeeded">>
    /\ Pair(dataCopy, itemsToProcess[BATCH_SIZE + 1]) = <<Str("N2"), Str("D2")>>
    /\ \A p \in 1 .. BATCH_SIZE :
          Pair(dataCopy, itemsToProcess[p]) = Pair(PreRun, itemsToProcess[p])

\* C7: when the returned Batch Result has no entry for index k,
\* reconciliation does not fail, the k-th record of the batch keeps its
\* pre-run name and description, and the records whose entries are present
\* are overwritten.
C7_MissingKeepsPreRun ==
    [][(/\ pc = "reconcile"
        /\ WellFormed(results)
        /\ Missing(results, batch) # {})
       => /\ outcomes' = Append(outcomes, "Succeeded")
          /\ \A k \in Missing(results, batch) :
                Pair(dataCopy', batch[k + 1]) = Pair(PreRun, batch[k + 1])
          /\ \A k \in Present(results, batch) :
                \E j \in Hits(results, k) :
                    Pair(dataCopy', batch[k + 1]) = EntryPair(results[j])]_vars

\* C8: a batch whose calls failed with RateLimited on attempts 1 and 2 and
\* returned a complete result on attempt 3 ends Succeeded: every record is
\* rewritten from an entry carrying its index, the size of the batch is
\* added to the succeeded counter, and the failed counter holds the records
\* of the batches that failed before and none of this one.
C8_ThirdAttemptSucceeds ==
    [][(/\ pc = "reconcile"
        /\ attempts = <<"RateLimited", "RateLimited">>
        /\ WellFormed(results)
        /\ Missing(results, batch) = {})
       => /\ outcomes' = Append(outcomes, "Succeeded")
          /\ successCount' = successCount + Len(batch)
          /\ failedCount = FailedSoFar
          /\ failedCount' = failedCount
          /\ \A k \in 0 .. Len(batch) - 1 :
                \E j \in Hits(results, k) :
                    Pair(dataCopy', batch[k + 1]) = EntryPair(results[j])]_vars

\* The third call of a batch of two records, after two rate-limit failures,
\* has returned an entry for each of the two.
C8_Witness ==
    /\ pc = "reconcile"
    /\ attempts = <<"RateLimited", "RateLimited">>
    /\ retries = 1
    /\ Len(batch) = 2
    /\ WellFormed(results)
    /\ Missing(results, batch) = {}

\* C9: a call that fails with a Fatal error ends the batch at once: the
\* batch is never in a backoff delay, a pacing delay or a further call with
\* a Fatal failure behind it.
C9_FatalEndsBatch ==
    ~(/\ \E k \in DOMAIN attempts : attempts[k] = "Fatal"
      /\ pc \in {"backoff", "pacing", "calling", "reconcile"})

\* C10: without an API key the run raises before any batch is attempted: it
\* waits no backoff or pacing delay, makes no retry, calls onProgress never,
\* counts no record as failed and does not return statistics for a
\* document that has records.
C10_MissingKeyRaised ==
    (~apiKey /\ pc # "entry" /\ total > 0) =>
        /\ pc \notin {"backoff", "pacing", "returned"}
        /\ attempts = <<>>
        /\ progressLog = <<>>
        /\ failedCount = 0

\* -------------------------------------------------- progress and ordering

\* The run is inside the while loop of the batch that starts at i.
InBatch == pc \in {"pacing", "calling", "reconcile", "backoff"}

\* C11: onProgress is called exactly once per batch, in the step in which the
\* batch reaches its terminal outcome and never between two attempts of it;
\* the processed values never decrease and every call reports the same total.
C11_ProgressOncePerBatch ==
    /\ [](/\ Len(progressLog) = Len(outcomes)
          /\ \A k \in DOMAIN progressLog : progressLog[k][2] = total
          /\ \A k \in DOMAIN progressLog :
                k > 1 => progressLog[k - 1][1] <= progressLog[k][1]
          /\ pc = "returned" => Len(progressLog) = NumBatches)
    /\ [][progressLog' # progressLog =>
            /\ InBatch
            /\ Len(progressLog') = Len(progressLog) + 1
            /\ Len(outcomes') = Len(outcomes) + 1
            /\ attempts' = <<>>]_vars

\* A run over two batches returned; the first batch used up its attempts, the
\* second one needed a retry, and there were two progress calls.
C11_Witness ==
    /\ pc = "returned"
    /\ Len(progressLog) = 2
    /\ outcomes = <<"PermanentlyFailed", "Succeeded">>
    /\ retries < RETRY_BUDGET

\* C12: for n records and the batch size B of the code, the progress calls are
\* exactly (min(k * B, n), n) for k = 1 .. ceil(n / B), in this order, so the
\* last call reports processed = total; while the run is under way the calls
\* made so far are the first ones of that list.
C12_ProgressValues ==
    /\ \A k \in DOMAIN progressLog :
          progressLog[k] = <<Min(k * BATCH_SIZE, total), total>>
    /\ pc = "returned" =>
          /\ DOMAIN progressLog = 1 .. NumBatches
          /\ total > 0 => progressLog[NumBatches][1] = total

\* Four records in batches of three: the calls were (3, 4) and then (4, 4).
C12_Witness ==
    /\ pc = "returned"
    /\ total = 4
    /\ progressLog = <<<<3, 4>>, <<4, 4>>>>

\* C14: batches are processed in discovery order, one at a time: whenever a
\* call is in flight it is for the batch right after the batches that already
\* have a terminal outcome, that batch is not empty, and a step that starts on
\* a later batch is the step that gave the current batch its outcome.
C14_OneBatchAtATime ==
    /\ [](InBatch =>
            /\ i = Len(outcomes) * BATCH_SIZE
            /\ i < total
            /\ batch = SubSeq(itemsToProcess, i + 1, Min(i + BATCH_SIZE, total)))
    /\ [][i' # i =>
            /\ pc \in {"calling", "reconcile"}
            /\ pc' # "calling"
            /\ i' = i + BATCH_SIZE
            /\ Len(outcomes') = Len(outcomes) + 1]_vars

\* The call for the second batch is in flight and the first batch is over.
C14_Witness ==
    /\ pc = "calling"
    /\ i = BATCH_SIZE
    /\ Len(outcomes) = 1
    /\ attempts # <<>>

\* C20: a batch gets at most three calls of processBatch; a further attempt is
\* made only after a failed one and while the budget is not used up; the third
\* failure ends the batch PermanentlyFailed and adds its size to the failed
\* counter, which is the only way the failed counter ever grows.
C20_ThreeAttempts ==
    /\ [](/\ Len(attempts) < RETRY_BUDGET
          /\ InBatch => retries = RETRY_BUDGET - Len(attempts)
          /\ pc = "backoff" => attempts # <<>> /\ retries > 0
          /\ failedCount = FailedSoFar)
    /\ [][/\ (pc' = "calling" /\ attempts' # <<>>) =>
                pc \in {"pacing", "backoff"} /\ attempts' = attempts
          /\ (/\ pc \in {"calling", "reconcile"}
              /\ pc' # "reconcile"
              /\ successCount' = successCount) =>
                IF Len(attempts) = RETRY_BUDGET - 1
                THEN /\ outcomes' = Append(outcomes, "PermanentlyFailed")
                     /\ failedCount' = failedCount + Len(batch)
                ELSE /\ pc' = "backoff"
                     /\ Len(attempts') = Len(attempts) + 1
                     /\ failedCount' = failedCount
                     /\ outcomes' = outcomes]_vars

\* The three calls of the first batch of three records failed and the run
\* went on to the second batch with three records counted as failed.
C20_Witness ==
    /\ InBatch
    /\ total = 4
    /\ outcomes = <<"PermanentlyFailed">>
    /\ failedCount = BATCH_SIZE
    /\ attempts = <<>>

\* ------------------------------------------------- documents and records

\* A node the specification calls a record: a mapping whose name and
\* description are both strings.
Matches(d) ==
    /\ d.t = "object"
    /\ HasKey(d, "name") /\ Field(d, "name").t = "string"
    /\ HasKey(d, "description") /\ Field(d, "description").t = "string"

\* The paths of all nodes of a document.
RECURSIVE AllPaths(_)
AllPaths(d) ==
    {<<>>} \cup UNION {{<<j>> \o p : p \in AllPaths(d.e[j])} : j \in DOMAIN d.e}

\* The paths of the records of a document.
MatchingPaths(d) == {p \in AllPaths(d) : Matches(GetAt(d, p))}

\* The document with the name and the description of every record blanked.
RECURSIVE Masked(_)
Masked(d) ==
    IF d.e = <<>> THEN d
    ELSE [d EXCEPT !.e =
            [j \in DOMAIN d.e |->
                IF Matches(d) /\ d.k[j] \in {"name", "description"}
                THEN Str("")
                ELSE Masked(d.e[j])]]

\* C13: for a document without any record the run returns at once with
\* statistics 0/0/0, without a call of processBatch, without a call of
\* onProgress, and with a document equal to the input.
C13_NoRecordNoWork ==
    (pc # "entry" /\ MatchingPaths(originalData) = {}) =>
        /\ pc = "returned"
        /\ total = 0 /\ successCount = 0 /\ failedCount = 0
        /\ attempts = <<>> /\ outcomes = <<>> /\ results = <<>>
        /\ progressLog = <<>>
        /\ dataCopy = originalData

\* The run over a document that has objects but no record has returned.
C13_Witness ==
    /\ pc = "returned"
    /\ originalData = DocNoMatch
    /\ dataCopy = DocNoMatch

\* C19: at every moment of a run, and so when it returns, the document differs
\* from the input at most in the name and the description of records: with
\* those two fields blanked in every record the two documents are equal.
C19_OnlyNameAndDescription ==
    pc # "entry" => Masked(dataCopy) = Masked(originalData)

\* A run over a document with one record among other nodes returned and
\* changed the document.
C19_Witness ==
    /\ pc = "returned"
    /\ originalData = DocMixed
    /\ dataCopy # originalData
    /\ successCount = 1

\* C15: once the caller has raised the cancellation signal no new batch is
\* dispatched: the step that ends the current batch ends the run, which
\* returns the document and the counters as they are.
C15_CancelStopsDispatch ==
    [][(cancelled /\ i' # i) =>
            /\ pc' = "returned"
            /\ successCount' + failedCount' = Min(i', total)]_vars

\* ---------------------------------------------------------------- batching

RECURSIVE Concat(_, _)
\* The batches from the j-th on, one after the other.
Concat(bs, j) == IF j > Len(bs) THEN <<>> ELSE bs[j] \o Concat(bs, j + 1)

\* C16: the batching loop over n records with batch size B >= 1 yields
\* ceil(n / B) batches, each of size B except possibly the last, which is not
\* empty; the batches one after the other are the list itself, so the sizes
\* add up to n and every record is in exactly one batch; while the loop runs
\* the batches taken so far make up the first records of the list.
C16_Batching ==
    /\ Concat(bBatches, 1) = SubSeq(bItems, 1, Min(bI, Len(bItems)))
    /\ \A k \in DOMAIN bBatches :
          /\ k < Len(bBatches) => Len(bBatches[k]) = bSize
          /\ Len(bBatches[k]) \in 1 .. bSize
    /\ bI >= Len(bItems) =>
          /\ Len(bBatches) = (Len(bItems) + bSize - 1) \div bSize
          /\ Concat(bBatches, 1) = bItems

\* Seven records in batches of three: two full batches and one of one record.
C16_Witness ==
    /\ bI >= Len(bItems)
    /\ bSize = BATCH_SIZE
    /\ bBatches = <<<<1, 2, 3>>, <<4, 5, 6>>, <<7>>>>

\* ---------------------------------------------------------------- discovery

\* C17: the list findProcessableItems returns holds the references of exactly
\* the objects, at any depth, whose name and description are both strings
\* (inside or outside arrays, inside other records or not), each one once.
C17_ExactlyTheRecords ==
    pc # "entry" =>
        /\ {itemsToProcess[j] : j \in DOMAIN itemsToProcess}
              = MatchingPaths(dataCopy)
        /\ Len(itemsToProcess) = Cardinality(MatchingPaths(dataCopy))

\* A document with a record inside a record and with an object that is no
\* record has been walked.
C17_Witness ==
    /\ pc # "entry"
    /\ \E p \in MatchingPaths(dataCopy), q \in MatchingPaths(dataCopy) :
          /\ Len(q) > Len(p)
          /\ SubSeq(q, 1, Len(p)) = p
    /\ \E p \in AllPaths(dataCopy) :
          GetAt(dataCopy, p).t = "object" /\ ~Matches(GetAt(dataCopy, p))
    /\ Len(itemsToProcess) >= 2

RECURSIVE PathBefore(_, _)
\* p comes before q in a pre-order walk that takes the children of a node in
\* the order of their positions.
PathBefore(p, q) ==
    IF p = <<>> THEN q # <<>>
    ELSE IF q = <<>> THEN FALSE
    ELSE IF Head(p) = Head(q) THEN PathBefore(Tail(p), Tail(q))
    ELSE Head(p) < Head(q)

\* C18: the discovery order is that of a pre-order depth-first walk: a record
\* comes before every record nested in it, and the children of a node are
\* walked in the order of their positions (array index, own property order);
\* {name, description, child: {name, description}} yields two references,
\* the outer record first.
C18_PreOrder ==
    pc # "entry" =>
        /\ \A a \in DOMAIN itemsToProcess, b \in DOMAIN itemsToProcess :
              a < b => PathBefore(itemsToProcess[a], itemsToProcess[b])
        /\ originalData = DocNested => itemsToProcess = <<<<>>, <<3>>>>

\* The record with a record as its child has been walked.
C18_Witness ==
    /\ pc # "entry"
    /\ originalData = DocNested
    /\ Len(itemsToProcess) = 2

\* ------------------------------------------------------ retries and delays

\* C21: once processBatch has returned a Batch Result (a list whose entries
\* are all objects), also one that leaves out correlation indices, the step
\* that reconciles it ends the batch as Succeeded and the run moves on to the
\* next batch or returns: no further call is made for the batch.
C21_NoResubmission ==
    [][(pc = "reconcile" /\ WellFormed(results)) =>
            /\ outcomes' = Append(outcomes, "Succeeded")
            /\ i' = i + BATCH_SIZE
            /\ pc' \in {"pacing", "returned"}
            /\ successCount' = successCount + Len(batch)]_vars

\* The first batch of four records ended Succeeded with its second record
\* as it was before the run and its first one rewritten, and the run is on
\* its way to the second batch.
C21_Witness ==
    /\ pc = "pacing"
    /\ total = 4
    /\ outcomes = <<"Succeeded">>
    /\ Pair(dataCopy, itemsToProcess[1]) # Pair(PreRun, itemsToProcess[1])
    /\ Pair(dataCopy, itemsToProcess[2]) = Pair(PreRun, itemsToProcess[2])

\* C22: the backoff delay grows with the attempt number: when a batch has
\* failed twice with the same failure class, the delay waited after the
\* second failure is larger than the one waited after the first.
C22_BackoffGrows ==
    (pc = "backoff" /\ Len(attempts) = 2 /\ attempts[1] = attempts[2]) =>
        waitMs > WaitTime(attempts[1] = "RateLimited", RETRY_BUDGET - 1)

\* C23: at the same attempt number the backoff after a rate-limit failure is
\* longer than the backoff after any other failure.
C23_RateLimitWaitsLonger ==
    pc = "backoff" =>
        IF attempts[Len(attempts)] = "RateLimited"
        THEN waitMs > WaitTime(FALSE, retries)
        ELSE waitMs < WaitTime(TRUE, retries)

\* The second attempt of a batch failed with a rate limit after a first one
\* that failed otherwise, and the run waits three steps of 5000 ms.
C23_Witness ==
    /\ pc = "backoff"
    /\ attempts = <<"Transient", "RateLimited">>
    /\ waitMs = 3 * RATE_LIMIT_STEP_MS

\* C24: a call of processBatch for a batch after the first is made only at
\* the end of a pacing delay of 2000 ms, its first call included, and a call
\* for the first batch is never made at the end of a pacing delay.
C24_Pacing ==
    /\ [](pc = "pacing" => i > 0 /\ waitMs = PACING_MS)
    /\ [][/\ (pc' = "calling" /\ pc # "calling") =>
                IF i' > 0 THEN pc = "pacing" ELSE pc \in {"entry", "backoff"}
          /\ (i' # i /\ pc' # "returned") => pc' = "pacing"]_vars

\* The first call for the second batch is in flight.
C24_Witness ==
    /\ pc = "calling"
    /\ i = BATCH_SIZE
    /\ attempts = <<>>
    /\ waitMs = 0

C26_Terminates ==
    /\ <>(pc = "returned")
    /\ [](calls <= 3 * NumBatches)

\* A run over four records has returned after six calls, three per batch.
C26_Witness ==
    /\ pc = "returned"
    /\ total = 4
    /\ calls = 6

\* ------------------------------------------- the first version of the service

\* C28: in src/services/geminiService.ts the third failed attempt of a batch
\* throws to the caller: the step makes no onProgress call and starts no
\* batch, nothing happens after it, and at that moment onProgress has been
\* called once for each batch before the failed one, with min(k * 10, n).
C28_OldVariantRethrows ==
    /\ [](pc = "raised" =>
            /\ Len(attempts) = RETRY_BUDGET
            /\ Len(progressLog) * OLD_BATCH_SIZE = i
            /\ Len(outcomes) * OLD_BATCH_SIZE = i
            /\ \A k \in DOMAIN progressLog :
                  progressLog[k] = <<Min(k * OLD_BATCH_SIZE, total), total>>)
    /\ [][/\ pc # "raised"
          /\ Len(attempts') = RETRY_BUDGET =>
                /\ pc' = "raised"
                /\ progressLog' = progressLog
                /\ outcomes' = outcomes
                /\ i' = i]_vars

\* The second batch of a run over eleven records failed three times after
\* the first batch had succeeded and had been reported as (10, 11).
C28_Witness ==
    /\ pc = "raised"
    /\ i = OLD_BATCH_SIZE
    /\ progressLog = <<<<10, 11>>>>
    /\ Len(attempts) = RETRY_BUDGET

\* ------------------------------------------------------------ the component

\* C27: whenever status is 'complete' and processedData is set, processedData
\* is the result of a run over the document that is loaded now; and a run
\* that resolves over a document that is no longer the loaded one sets
\* neither processedData nor status.
C27_CompleteIsCurrent ==
    /\ []((app.status = "complete" /\ app.processedData # 0) =>
             app.processedData = app.originalData)
    /\ [][\A k \in DOMAIN app.runs :
             (app.runs[k] # app.originalData /\ app'.runs = Without(app.runs, k))
                => /\ app'.processedData = app.processedData
                   /\ app'.status = app.status]_vars

====
